---- MODULE Spec2Model ----
(***************************************************************************)
(* Model of the EC11 rotary-encoder driver, src/ec11TaoBao.py (class EC11):*)
(* the quadrature decoder read_rotation with its detent accumulator, the   *)
(* debounced push button read_button, and get_counter / reset_counter.     *)
(*                                                                         *)
(* The decoder's fields are the variables last_state, counter,             *)
(* step_accumulator, last_button and button_debounce_time.  The pin levels *)
(* and the millisecond clock are inputs of the calls.  The remaining       *)
(* variables record the calls made (history), so that statements about     *)
(* sequences of calls and their return values are state predicates.        *)
(***************************************************************************)
EXTENDS Integers, Sequences, FiniteSets

VARIABLES
    last_state,            \* EC11.last_state: previous packed sample (a<<1)|b
    counter,               \* EC11.counter
    step_accumulator,      \* EC11.step_accumulator
    last_button,           \* EC11.last_button: previous sampled button level
    button_debounce_time,  \* EC11.button_debounce_time: ticks of last accepted press
    clock,                 \* milliseconds elapsed at the latest time.ticks_ms() call
    op,                    \* history: name of the latest operation
    result,                \* history: what the latest operation returned
    nrot,                  \* history: number of read_rotation calls so far
    rot_log,               \* history: the latest (at most DetentSteps) read_rotation calls
    delta_sum,             \* history: sum of table deltas since construction / reset_counter
    btn_log,               \* history: every read_button call so far
    init_state,            \* history: the packed state sampled by the constructor
    dir_sum,               \* history: sum of returned directions since construction / reset_counter
    ctx                    \* an invocation in progress in the polling context, statement by
                           \* statement, and the interrupt invocation that preempts it

vars == <<last_state, counter, step_accumulator, last_button, button_debounce_time,
          clock, op, result, nrot, rot_log, delta_sum, btn_log, init_state, dir_sum, ctx>>

\* the history of whole calls
histVars == <<op, result, nrot, rot_log, delta_sum, btn_log, init_state, dir_sum>>

rotVars == <<last_state, counter, step_accumulator>>
btnVars == <<last_button, button_debounce_time, clock>>

----------------------------------------------------------------------------
(* Bounds of the model *)

\* read_rotation calls explored per run
MaxRot == 8
\* read_button calls explored per run
MaxBtn == 5
\* sampling calls explored per run when both operations are called
MaxCalls == 4

\* Pin levels delivered by Pin.value()
Levels == {0, 1}
\* Milliseconds that may pass between two consecutive time.ticks_ms() reads
Dts == {0, 21, 30, 50}

----------------------------------------------------------------------------
(* Program constants *)

\* `abs(self.step_accumulator) >= 4`: raw steps per detent
DetentSteps == 4
\* `time.ticks_diff(...) > 50`: debounce window in ms
DebounceMs == 50
\* period of time.ticks_ms() (MicroPython TICKS_PERIOD, 2^30)
TICKS_PERIOD == 1073741824

\* variant: the table of the opposite wiring (every sign flipped)
Mut_state_table_flipped == <<0, 1, -1, 0,  -1, 0, 0, 1,  1, 0, 0, -1,  0, -1, 1, 0>>

\* variant: the jumps 0->3 and 3->0 decoded as steps
Mut_state_table_jump == <<0, -1, 1, 1,  1, 0, 0, -1,  -1, 0, 0, 1,  -1, 1, -1, 0>>

\* variant: the unchanged sample 1->1 decoded as a step
Mut_state_table_diag == <<0, -1, 1, 0,  1, 1, 0, -1,  -1, 0, 0, 1,  0, 1, -1, 0>>

\* self.state_table, index = old_state*4 + new_state (0-based in the code)
state_table == <<0, -1, 1, 0,  1, 0, 0, -1,  -1, 0, 0, 1,  0, 1, -1, 0>>

----------------------------------------------------------------------------
(* Pure helpers *)

Abs(x) == IF x < 0 THEN -x ELSE x

\* (pin_a.value() << 1) | pin_b.value(), for levels in {0,1}
PackState(a, b) == 2 * a + b

\* (self.last_state << 2) | current_state, for states in 0..3
TableIndex(old, new) == 4 * old + new

\* direction = self.state_table[index]
Direction(old, new) == state_table[TableIndex(old, new) + 1]

\* variant: the accumulator counts steps, whatever their direction
Mut_Accumulate_Unsigned(acc, direction) == acc + Abs(direction)

\* step_accumulator after `self.step_accumulator += direction` (taken only if direction != 0)
Accumulate(acc, direction) == IF direction # 0 THEN acc + direction ELSE acc

\* variant: the counter counts steps, whatever their direction
Mut_Count_Unsigned(cnt, direction) == cnt + Abs(direction)

\* counter after `self.counter += direction` (taken only if direction != 0)
Count(cnt, direction) == IF direction # 0 THEN cnt + direction ELSE cnt

\* variant: the detent test with > in place of >=
Mut_DetentReached_Strict(acc, direction) == direction # 0 /\ Abs(acc) > DetentSteps

\* the detent test, on the accumulator value after accumulation
DetentReached(acc, direction) == direction # 0 /\ Abs(acc) >= DetentSteps

\* variant: the accumulated value is returned instead of its sign
Mut_RotationResult_Raw(acc, direction) ==
    IF DetentReached(acc, direction) THEN acc ELSE 0

\* variant: the sign test is inverted
Mut_RotationResult_Inverted(acc, direction) ==
    IF DetentReached(acc, direction) THEN (IF acc > 0 THEN -1 ELSE 1) ELSE 0

\* value returned by read_rotation, acc being the accumulator after accumulation
RotationResult(acc, direction) ==
    IF DetentReached(acc, direction) THEN (IF acc > 0 THEN 1 ELSE -1) ELSE 0

\* variant: the accumulator is not reset on a detent
Mut_SettleAccumulator_NoReset(acc, direction) == acc

\* step_accumulator when read_rotation returns
SettleAccumulator(acc, direction) ==
    IF DetentReached(acc, direction) THEN 0 ELSE acc

\* variant: the detent path returns without recording the sampled state
Mut_TrackState_SkipOnDetent(last, current_state, acc, direction) ==
    IF DetentReached(acc, direction) THEN last ELSE current_state

\* last_state when read_rotation returns: assigned on the detent path (line 60)
\* and on the common path (line 64), acc being the accumulator after accumulation
TrackState(last, current_state, acc, direction) ==
    IF DetentReached(acc, direction) THEN current_state ELSE current_state

\* time.ticks_ms(): the elapsed milliseconds, wrapping at TICKS_PERIOD
ticks_ms(elapsed) == elapsed % TICKS_PERIOD

\* variant: the difference taken by plain subtraction of the tick values
Mut_ticks_diff_Plain(t1, t2) == t1 - t2

\* time.ticks_diff(t1, t2): signed difference of two tick values, wrapping
ticks_diff(t1, t2) ==
    ((t1 - t2 + TICKS_PERIOD \div 2) % TICKS_PERIOD) - TICKS_PERIOD \div 2

\* variant: the debounce test with >= in place of >
Mut_PressAccepted_Inclusive(last, current_button, current_time, debounce_time) ==
    /\ last = 0 /\ current_button = 1
    /\ ticks_diff(current_time, debounce_time) >= DebounceMs

\* the two nested conditions of read_button under which it returns True
PressAccepted(last, current_button, current_time, debounce_time) ==
    /\ last = 0 /\ current_button = 1
    /\ ticks_diff(current_time, debounce_time) > DebounceMs

\* variant: a rising edge rejected by the debounce test is not recorded
Mut_TrackButton_SkipRejected(last, current_button, accepted) ==
    IF last = 0 /\ current_button = 1 /\ ~accepted THEN last ELSE current_button

\* variant: the accepting path returns without recording the level
Mut_TrackButton_SkipAccepted(last, current_button, accepted) ==
    IF accepted THEN last ELSE current_button

\* last_button when read_button returns (both paths assign current_button)
TrackButton(last, current_button, accepted) == current_button

\* button_debounce_time when read_button returns
StampPress(debounce_time, current_time, accepted) ==
    IF accepted THEN current_time ELSE debounce_time

\* EC11.read_rotation as a function: the rotation fields f and the sampled
\* state s give the fields and the value returned
RotCall(f, s) ==
    LET direction == Direction(f.last_state, s)
        acc       == Accumulate(f.step_accumulator, direction)
    IN  [last_state       |-> TrackState(f.last_state, s, acc, direction),
         counter          |-> Count(f.counter, direction),
         step_accumulator |-> SettleAccumulator(acc, direction),
         ret              |-> RotationResult(acc, direction)]

\* EC11.read_button as a function: the button fields f, the sampled level c
\* and the tick value t give the fields and the value returned
BtnCall(f, c, t) ==
    LET accepted == PressAccepted(f.last_button, c, t, f.button_debounce_time)
    IN  [last_button          |-> TrackButton(f.last_button, c, accepted),
         button_debounce_time |-> StampPress(f.button_debounce_time, t, accepted),
         ret                  |-> accepted]

\* rot_log keeps the latest DetentSteps entries (one detent's worth of calls)
Push(log, e) ==
    IF Len(log) < DetentSteps THEN Append(log, e) ELSE Append(Tail(log), e)

\* no invocation in progress: phase is "idle", "poll" (in progress) or "done";
\* kind and irq name the operation of the polling and of the interrupt
\* invocation; pc is the source line of the polling invocation's next
\* statement; current, current_time, index, direction and res are its locals
NoInvocation ==
    [phase |-> "idle", kind |-> "none", pc |-> 0,
     current |-> 0, current_time |-> 0, index |-> 0, direction |-> 0, res |-> 0,
     poll_ret |-> 0, irq |-> "none", irq_at |-> 0, irq_in |-> <<0, 0>>, irq_ret |-> 0,
     start |-> <<>>, seen |-> {}, earlier |-> 0]

----------------------------------------------------------------------------
(* Construction: EC11.__init__ samples the three pins *)

Init ==
    \E a \in Levels, b \in Levels, c \in Levels :
        /\ last_state = PackState(a, b)
        /\ counter = 0
        /\ step_accumulator = 0
        /\ last_button = c
        /\ button_debounce_time = 0
        /\ clock = 0
        /\ op = "init"
        /\ result = 0
        /\ nrot = 0
        /\ rot_log = << >>
        /\ delta_sum = 0
        /\ btn_log = << >>
        /\ init_state = PackState(a, b)
        /\ dir_sum = 0
        /\ ctx = NoInvocation

----------------------------------------------------------------------------
(* Operations *)

\* EC11.read_rotation, the pins reading a and b
ReadRotation(a, b) ==
    LET current_state == PackState(a, b)
        direction     == Direction(last_state, current_state)
        acc           == Accumulate(step_accumulator, direction)
        cnt           == Count(counter, direction)
        ret           == RotationResult(acc, direction)
        settled       == SettleAccumulator(acc, direction)
    IN  /\ nrot < MaxRot
        /\ step_accumulator' = settled
        /\ counter' = cnt
        /\ last_state' = TrackState(last_state, current_state, acc, direction)
        /\ op' = "read_rotation"
        /\ result' = ret
        /\ nrot' = nrot + 1
        /\ delta_sum' = delta_sum + direction
        /\ dir_sum' = dir_sum + ret
        /\ rot_log' = Push(rot_log,
                           [old |-> last_state, new |-> current_state,
                            delta |-> direction, ret |-> ret,
                            acc0 |-> step_accumulator, acc1 |-> settled])
        /\ UNCHANGED <<btnVars, btn_log, init_state, ctx>>

\* variant: read_button stores the sampled level in last_state
Mut_ReadButton_WritesLastState(c, dt) ==
    LET elapsed        == clock + dt
        current_time   == ticks_ms(elapsed)
        current_button == c
        accepted       == PressAccepted(last_button, current_button,
                                        current_time, button_debounce_time)
    IN  /\ Len(btn_log) < MaxBtn
        /\ clock' = elapsed
        /\ button_debounce_time' = StampPress(button_debounce_time, current_time, accepted)
        /\ last_state' = TrackButton(last_button, current_button, accepted)
        /\ op' = "read_button"
        /\ result' = accepted
        /\ btn_log' = Append(btn_log,
                             [t |-> elapsed, level |-> current_button, ret |-> accepted,
                              last0 |-> last_button, stamp0 |-> button_debounce_time,
                              stamp1 |-> StampPress(button_debounce_time,
                                                    current_time, accepted)])
        /\ UNCHANGED <<counter, step_accumulator, last_button,
                       nrot, rot_log, delta_sum, init_state, dir_sum, ctx>>

\* EC11.read_button, the pin reading c, dt ms after the previous ticks_ms() read
ReadButton(c, dt) ==
    LET elapsed        == clock + dt
        current_time   == ticks_ms(elapsed)
        current_button == c
        accepted       == PressAccepted(last_button, current_button,
                                        current_time, button_debounce_time)
    IN  /\ Len(btn_log) < MaxBtn
        /\ clock' = elapsed
        /\ button_debounce_time' = StampPress(button_debounce_time, current_time, accepted)
        /\ last_button' = TrackButton(last_button, current_button, accepted)
        /\ op' = "read_button"
        /\ result' = accepted
        /\ btn_log' = Append(btn_log,
                             [t |-> elapsed, level |-> current_button, ret |-> accepted,
                              last0 |-> last_button, stamp0 |-> button_debounce_time,
                              stamp1 |-> StampPress(button_debounce_time,
                                                    current_time, accepted)])
        /\ UNCHANGED <<rotVars, nrot, rot_log, delta_sum, init_state, dir_sum, ctx>>

\* EC11.get_counter
GetCounter ==
    /\ op' = "get_counter"
    /\ result' = counter
    /\ UNCHANGED <<rotVars, btnVars, nrot, rot_log, delta_sum, btn_log, init_state, dir_sum, ctx>>

\* variant: reset_counter clears the accumulator instead of the counter
Mut_ResetCounter_WrongField ==
    /\ step_accumulator' = 0
    /\ op' = "reset_counter"
    /\ result' = 0
    /\ delta_sum' = 0
    /\ dir_sum' = 0
    /\ UNCHANGED <<last_state, counter, btnVars, nrot, rot_log, btn_log, init_state, ctx>>

\* variant: reset_counter clears the accumulator along with the counter
Mut_ResetCounter_ClearsBoth ==
    /\ counter' = 0
    /\ step_accumulator' = 0
    /\ op' = "reset_counter"
    /\ result' = 0
    /\ delta_sum' = 0
    /\ dir_sum' = 0
    /\ UNCHANGED <<last_state, btnVars, nrot, rot_log, btn_log, init_state, ctx>>

\* EC11.reset_counter
ResetCounter ==
    /\ counter' = 0
    /\ op' = "reset_counter"
    /\ result' = 0
    /\ delta_sum' = 0
    /\ dir_sum' = 0
    /\ UNCHANGED <<last_state, step_accumulator, btnVars, nrot, rot_log, btn_log, init_state, ctx>>

----------------------------------------------------------------------------
(* Specifications *)

\* the rotation side of the decoder: read_rotation, get_counter, reset_counter
NextRotation ==
    \/ \E a \in Levels, b \in Levels : ReadRotation(a, b)
    \/ GetCounter
    \/ ResetCounter

\* the button side of the decoder: read_button
NextButton ==
    \E c \in Levels, dt \in Dts : ReadButton(c, dt)

SpecRotation == Init /\ [][NextRotation]_vars

SpecButton == Init /\ [][NextButton]_vars

\* the rotation side in a run that never calls reset_counter
NextNoReset ==
    \/ \E a \in Levels, b \in Levels : ReadRotation(a, b)
    \/ GetCounter

SpecNoReset == Init /\ [][NextNoReset]_vars

\* the rotation side when no sample misses a state: every sampled transition
\* is no change or a change of one pin
NextValid ==
    \/ \E a \in Levels, b \in Levels :
           /\ PackState(a, b) + last_state # 3
           /\ ReadRotation(a, b)
    \/ GetCounter
    \/ ResetCounter

SpecValid == Init /\ [][NextValid]_vars

\* both sampling operations, called in any order as a polling loop may
NextCalls ==
    \/ \E a \in Levels, b \in Levels :
           nrot + Len(btn_log) < MaxCalls /\ ReadRotation(a, b)
    \/ \E c \in Levels, dt \in Dts :
           nrot + Len(btn_log) < MaxCalls /\ ReadButton(c, dt)

SpecCalls == Init /\ [][NextCalls]_vars

----------------------------------------------------------------------------
(* An invocation of read_rotation or read_button in the polling context,   *)
(* executed one statement at a time (pc is the source line), preempted at  *)
(* most once by an interrupt handler that runs a whole invocation of       *)
(* read_rotation or read_button before the polling context resumes.        *)

\* the decoder's five fields
Fields ==
    [last_state |-> last_state, counter |-> counter,
     step_accumulator |-> step_accumulator,
     last_button |-> last_button, button_debounce_time |-> button_debounce_time]

\* Gaps between ticks_ms() reads around an invocation
DtsPoll == {0, DebounceMs + 1}

\* a whole invocation of operation kind on the fields f: input <<s, 0>> (the
\* sampled state) for read_rotation, <<c, t>> (level, ticks) for read_button
Invoke(kind, f, input) ==
    IF kind = "rot"
    THEN LET r == RotCall(f, input[1])
         IN  [f EXCEPT !.last_state = r.last_state, !.counter = r.counter,
                       !.step_accumulator = r.step_accumulator]
    ELSE LET r == BtnCall(f, input[1], input[2])
         IN  [f EXCEPT !.last_button = r.last_button,
                       !.button_debounce_time = r.button_debounce_time]

\* both the polling invocation and the interrupt invocation have returned
BothReturned == ctx.phase = "done" /\ ctx.irq # "none"
\* the input the polling invocation read
PollInput ==
    IF ctx.kind = "rot" THEN <<ctx.current, 0>> ELSE <<ctx.current, ctx.current_time>>
\* the fields left by the two invocations run one after the other on the
\* fields the polling invocation started from, each on the input it read
PollThenIrq == Invoke(ctx.irq, Invoke(ctx.kind, ctx.start, PollInput), ctx.irq_in)
IrqThenPoll == Invoke(ctx.kind, Invoke(ctx.irq, ctx.start, ctx.irq_in), PollInput)
\* the fields are those of neither serial order
NonSerial == Fields # PollThenIrq /\ Fields # IrqThenPoll
\* the main loop's iteration calls read_rotation (line 110): line 43 is next
PollEnter ==
    /\ ctx.phase = "idle"
    /\ ctx' = [ctx EXCEPT !.phase = "poll", !.kind = "rot", !.pc = 43,
                          !.start = Fields]
    /\ UNCHANGED <<rotVars, btnVars, histVars>>

\* the iteration goes on to call read_button (line 114): line 73 is next; the
\* pair of operations whose run just ended in non-serial fields is remembered
PollEnterButton ==
    /\ ctx.phase = "done" /\ ctx.kind = "rot"
    /\ ctx' = [NoInvocation EXCEPT
                  !.phase = "poll", !.kind = "btn", !.pc = 73, !.start = Fields,
                  !.seen = IF BothReturned /\ NonSerial
                           THEN {<<ctx.kind, ctx.irq>>} ELSE {}]
    /\ UNCHANGED <<rotVars, btnVars, histVars>>

\* line 43: current_state = (self.pin_a.value() << 1) | self.pin_b.value()
PollSamplePins(a, b) ==
    /\ ctx.phase = "poll" /\ ctx.pc = 43
    /\ ctx' = [ctx EXCEPT !.current = PackState(a, b), !.pc = 46]
    /\ UNCHANGED <<rotVars, btnVars, histVars>>

\* line 73: current_time = time.ticks_ms()
PollReadTicks(dt) ==
    /\ ctx.phase = "poll" /\ ctx.pc = 73
    /\ clock' = clock + dt
    /\ ctx' = [ctx EXCEPT !.current_time = ticks_ms(clock + dt), !.pc = 74]
    /\ UNCHANGED <<rotVars, last_button, button_debounce_time, histVars>>

\* line 74: current_button = self.pin_c.value()
PollSampleButton(c) ==
    /\ ctx.phase = "poll" /\ ctx.pc = 74
    /\ ctx' = [ctx EXCEPT !.current = c, !.pc = 80]
    /\ UNCHANGED <<rotVars, btnVars, histVars>>

\* lines 46-66 of read_rotation, one statement per step
PollRotationStatement ==
    /\ ctx.phase = "poll" /\ ctx.kind = "rot" /\ ctx.pc \in 46..66
    /\ last_state' =
           IF ctx.pc \in {60, 64} THEN ctx.current ELSE last_state
    /\ step_accumulator' =
           CASE ctx.pc = 53 -> step_accumulator + ctx.direction
             [] ctx.pc = 59 -> 0
             [] OTHER       -> step_accumulator
    /\ counter' =
           IF ctx.pc = 54 THEN counter + ctx.direction ELSE counter
    /\ ctx' =
           CASE ctx.pc = 46 ->
                    [ctx EXCEPT !.index = TableIndex(last_state, ctx.current), !.pc = 49]
             [] ctx.pc = 49 ->
                    [ctx EXCEPT !.direction = state_table[ctx.index + 1], !.pc = 52]
             [] ctx.pc = 52 ->
                    [ctx EXCEPT !.pc = IF ctx.direction # 0 THEN 53 ELSE 64]
             [] ctx.pc = 53 -> [ctx EXCEPT !.pc = 54]
             [] ctx.pc = 54 -> [ctx EXCEPT !.pc = 57]
             [] ctx.pc = 57 ->
                    [ctx EXCEPT !.pc = IF Abs(step_accumulator) >= DetentSteps
                                       THEN 58 ELSE 64]
             [] ctx.pc = 58 ->
                    [ctx EXCEPT !.res = IF step_accumulator > 0 THEN 1 ELSE -1, !.pc = 59]
             [] ctx.pc = 59 -> [ctx EXCEPT !.pc = 60]
             [] ctx.pc = 60 -> [ctx EXCEPT !.pc = 61]
             [] ctx.pc = 61 -> [ctx EXCEPT !.phase = "done", !.poll_ret = ctx.res]
             [] ctx.pc = 64 -> [ctx EXCEPT !.pc = 66]
             [] ctx.pc = 66 -> [ctx EXCEPT !.phase = "done", !.poll_ret = 0]
    /\ ctx.pc \in {46, 49, 52, 53, 54, 57, 58, 59, 60, 61, 64, 66}
    /\ UNCHANGED <<btnVars, histVars>>

\* lines 80-87 of read_button, one statement per step; the value returned is
\* recorded as 1 (True) or 0 (False)
PollButtonStatement ==
    /\ ctx.phase = "poll" /\ ctx.kind = "btn" /\ ctx.pc \in 80..87
    /\ button_debounce_time' =
           IF ctx.pc = 82 THEN ctx.current_time ELSE button_debounce_time
    /\ last_button' =
           IF ctx.pc \in {83, 86} THEN ctx.current ELSE last_button
    /\ ctx' =
           CASE ctx.pc = 80 ->
                    [ctx EXCEPT !.pc = IF last_button = 0 /\ ctx.current = 1
                                       THEN 81 ELSE 86]
             [] ctx.pc = 81 ->
                    [ctx EXCEPT !.pc =
                        IF ticks_diff(ctx.current_time, button_debounce_time) > DebounceMs
                        THEN 82 ELSE 86]
             [] ctx.pc = 82 -> [ctx EXCEPT !.pc = 83]
             [] ctx.pc = 83 -> [ctx EXCEPT !.pc = 84]
             [] ctx.pc = 84 -> [ctx EXCEPT !.phase = "done", !.poll_ret = 1]
             [] ctx.pc = 86 -> [ctx EXCEPT !.pc = 87]
             [] ctx.pc = 87 -> [ctx EXCEPT !.phase = "done", !.poll_ret = 0]
    /\ ctx.pc \in {80, 81, 82, 83, 84, 86, 87}
    /\ UNCHANGED <<rotVars, clock, histVars>>

\* the interrupt handler runs read_rotation, once, at any statement boundary
\* of the polling invocation, before it or after it
IrqRotation(a, b) ==
    LET r == RotCall(Fields, PackState(a, b))
    IN  /\ ctx.phase \in {"poll", "done"} /\ ctx.irq = "none"
        /\ last_state' = r.last_state
        /\ counter' = r.counter
        /\ step_accumulator' = r.step_accumulator
        /\ ctx' = [ctx EXCEPT !.irq = "rot", !.irq_at = ctx.pc,
                              !.irq_in = <<PackState(a, b), 0>>, !.irq_ret = r.ret]
        /\ UNCHANGED <<btnVars, histVars>>

\* variant: the handler's read_button stores the sampled level in last_state
Mut_IrqButton_WritesLastState(c, dt) ==
    LET t == ticks_ms(clock + dt)
        r == BtnCall(Fields, c, t)
    IN  /\ ctx.phase \in {"poll", "done"} /\ ctx.irq = "none"
        /\ clock' = clock + dt
        /\ last_state' = r.last_button
        /\ button_debounce_time' = r.button_debounce_time
        /\ ctx' = [ctx EXCEPT !.irq = "btn", !.irq_at = ctx.pc,
                              !.irq_in = <<c, t>>,
                              !.irq_ret = IF r.ret THEN 1 ELSE 0]
        /\ UNCHANGED <<last_button, counter, step_accumulator, histVars>>

\* the interrupt handler runs read_button, once, likewise
IrqButton(c, dt) ==
    LET t == ticks_ms(clock + dt)
        r == BtnCall(Fields, c, t)
    IN  /\ ctx.phase \in {"poll", "done"} /\ ctx.irq = "none"
        /\ clock' = clock + dt
        /\ last_button' = r.last_button
        /\ button_debounce_time' = r.button_debounce_time
        /\ ctx' = [ctx EXCEPT !.irq = "btn", !.irq_at = ctx.pc,
                              !.irq_in = <<c, t>>,
                              !.irq_ret = IF r.ret THEN 1 ELSE 0]
        /\ UNCHANGED <<rotVars, histVars>>

\* whole read_rotation calls made before the invocation under study, bringing
\* the accumulator up to one step from a detent
EarlierRotation(a, b) ==
    LET r == RotCall(Fields, PackState(a, b))
    IN  /\ ctx.phase = "idle"
        /\ ctx.earlier < DetentSteps - 1
        /\ last_state' = r.last_state
        /\ counter' = r.counter
        /\ step_accumulator' = r.step_accumulator
        /\ ctx' = [ctx EXCEPT !.earlier = @ + 1]
        /\ UNCHANGED <<btnVars, histVars>>

NextPreempt ==
    \/ \E a \in Levels, b \in Levels : EarlierRotation(a, b)
    \/ PollEnter
    \/ PollEnterButton
    \/ \E a \in Levels, b \in Levels : PollSamplePins(a, b)
    \/ \E dt \in DtsPoll : PollReadTicks(dt)
    \/ \E c \in Levels : PollSampleButton(c)
    \/ PollRotationStatement
    \/ PollButtonStatement
    \/ \E a \in Levels, b \in Levels : IrqRotation(a, b)
    \/ \E c \in Levels, dt \in DtsPoll : IrqButton(c, dt)

SpecPreempt == Init /\ [][NextPreempt]_vars

\* Gaps between ticks_ms() reads that carry the clock across the tick period:
\* the debounce boundary (50, 51 ms) and just under half a period
DtsWrap == {0, DebounceMs, DebounceMs + 1, TICKS_PERIOD \div 2 - 1}
\* the elapsed time is explored up to a little more than one period
ClockCap == TICKS_PERIOD + 4 * DebounceMs

\* the button side of the decoder on a long-running device
NextWrap ==
    \E c \in Levels, dt \in DtsWrap : clock + dt <= ClockCap /\ ReadButton(c, dt)

SpecWrap == Init /\ [][NextWrap]_vars

----------------------------------------------------------------------------
(* Reading the history *)

\* number of entries in rot_log
RLen == Len(rot_log)
\* the entry of the latest read_rotation call (rot_log non-empty)
RLast == rot_log[Len(rot_log)]
\* rot_log holds every read_rotation call since construction
RotLogComplete == nrot = Len(rot_log)
\* the states sampled by the calls in rot_log, oldest first
SampledStates == [i \in 1..Len(rot_log) |-> rot_log[i].new]
\* the values returned by the calls in rot_log, oldest first
Returned == [i \in 1..Len(rot_log) |-> rot_log[i].ret]
\* both pins differ between old and new: 0<->3 and 1<->2
DoubleJump(old, new) == <<old, new>> \in {<<0, 3>>, <<3, 0>>, <<1, 2>>, <<2, 1>>}

\* number of entries in btn_log
BLen == Len(btn_log)

----------------------------------------------------------------------------
(* C1: starting from step_accumulator = 0, four consecutive read_rotation  *)
(* calls whose transitions all have table delta d (d = +1 or d = -1)       *)
(* return 0, 0, 0, d: the direction is returned once, on the 4th call.     *)
C1_FourStepsOneEvent ==
    \A d \in {1, -1} :
        ( /\ RLen = DetentSteps
          /\ rot_log[1].acc0 = 0
          /\ \A i \in 1..RLen : rot_log[i].delta = d )
        => Returned = <<0, 0, 0, d>>

C1_Witness ==
    /\ op = "read_rotation"
    /\ RLen = DetentSteps
    /\ rot_log[1].acc0 = 0
    /\ \A i \in 1..RLen : rot_log[i].delta = 1
    /\ nrot > DetentSteps

(* C2: on a decoder whose last state is 0 and whose accumulator is 0,      *)
(* sampling the states 1, 3, 2, 0 in this order returns 0, 0, 0 and then   *)
(* +1 (clockwise) on the 4th call.                                         *)
C2_CycleIsClockwise ==
    ( /\ RLen = DetentSteps
      /\ rot_log[1].old = 0
      /\ rot_log[1].acc0 = 0
      /\ SampledStates = <<1, 3, 2, 0>> )
    => Returned = <<0, 0, 0, 1>>

C4_CounterIsDeltaSum == counter = delta_sum

C4_Witness ==
    /\ op = "read_rotation"
    /\ result = 1
    /\ step_accumulator = 0
    /\ counter = DetentSteps

(* C5: when a read_rotation call returns, step_accumulator is in [-3, 3],  *)
(* and it is 0 whenever the call returns a non-zero direction.             *)
C5_AccumulatorRange ==
    /\ step_accumulator \in -(DetentSteps - 1) .. (DetentSteps - 1)
    /\ (op = "read_rotation" /\ result # 0) => step_accumulator = 0

C5_Witness ==
    /\ op = "read_rotation"
    /\ result = -1
    /\ step_accumulator = 0
    /\ RLen >= 2
    /\ rot_log[RLen - 1].acc1 = -(DetentSteps - 1)

(* C9: a sampled transition in which both pins changed (0<->3, 1<->2;      *)
(* table indices 3, 6, 9, 12) has delta 0: read_rotation returns 0 and     *)
(* leaves counter and step_accumulator unchanged; last_state moves to the  *)
(* new state.                                                              *)
C9_DoubleJumpIgnored ==
    [][ (nrot' # nrot /\ DoubleJump(RLast'.old, RLast'.new))
        => /\ TableIndex(RLast'.old, RLast'.new) \in {3, 6, 9, 12}
           /\ RLast'.old = last_state
           /\ RLast'.delta = 0
           /\ result' = 0
           /\ counter' = counter
           /\ step_accumulator' = step_accumulator
           /\ last_state' = RLast'.new ]_vars

C9_Witness ==
    /\ op = "read_rotation"
    /\ DoubleJump(RLast.old, RLast.new)
    /\ step_accumulator = DetentSteps - 1
    /\ counter = -1

(* C10: a read_rotation call whose sampled state equals last_state returns *)
(* 0 and leaves counter, step_accumulator and last_state as they were,     *)
(* however often it is repeated and from any reachable state.              *)
C10_UnchangedSampleIdempotent ==
    [][ (nrot' # nrot /\ RLast'.new = last_state)
        => /\ result' = 0
           /\ RLast'.delta = 0
           /\ counter' = counter
           /\ step_accumulator' = step_accumulator
           /\ last_state' = last_state ]_vars

C10_Witness ==
    /\ op = "read_rotation"
    /\ RLen = DetentSteps
    /\ \A i \in 2..RLen : rot_log[i].new = rot_log[i].old
    /\ step_accumulator = -2
    /\ counter = -2

C7_ButtonScenario ==
    LET levels  == <<1, 0, 1, 0, 1>>
        matches == /\ BLen \in 1..5
                   /\ btn_log[1].last0 = 0
                   /\ \A i \in 1..BLen : btn_log[i].level = levels[i]
                   /\ btn_log[1].t = 0
                   /\ BLen >= 3 => btn_log[3].t = 30
                   /\ BLen >= 5 => btn_log[5].t = 51
    IN  matches => /\ btn_log[1].ret = TRUE
                   /\ BLen >= 3 => btn_log[3].ret = FALSE
                   /\ BLen >= 5 => btn_log[5].ret = TRUE

(* C8: after every read_button call last_button is the level sampled in    *)
(* that call, whether it returned true or false; a rising edge rejected by *)
(* the debounce test still records level 1, so no call returns true while  *)
(* the button stays held.                                                  *)
C8_LevelAlwaysTracked ==
    /\ BLen >= 1 => last_button = btn_log[BLen].level
    /\ \A i \in 2..BLen :
           /\ btn_log[i].last0 = btn_log[i - 1].level
           /\ btn_log[i - 1].level = 1 => btn_log[i].ret = FALSE

C8_Witness ==
    /\ op = "read_button"
    /\ BLen >= 2
    /\ LET rejected == btn_log[BLen - 1]
           held     == btn_log[BLen]
       IN  /\ rejected.last0 = 0 /\ rejected.level = 1 /\ ~rejected.ret
           /\ held.level = 1
           /\ held.t - held.stamp0 > DebounceMs
           /\ result = FALSE
           /\ last_button = 1

----------------------------------------------------------------------------
\* the accepted call nearest before call j of btn_log (0 if there is none)
LastAcceptedBefore(j) ==
    IF \E i \in 1..(j - 1) : btn_log[i].ret
    THEN CHOOSE i \in 1..(j - 1) :
             btn_log[i].ret /\ \A k \in (i + 1)..(j - 1) : ~btn_log[k].ret
    ELSE 0
\* call j of btn_log sampled a rising edge
RisingEdge(j) == btn_log[j].last0 = 0 /\ btn_log[j].level = 1
\* true milliseconds between the last accepted press before call j and call j
ElapsedSincePress(j) == btn_log[j].t - btn_log[LastAcceptedBefore(j)].t

C12_ResetThenGetIsZero ==
    [][ (op = "reset_counter" /\ op' = "get_counter") => result' = 0 ]_vars

C12_Witness ==
    /\ op = "get_counter"
    /\ result = 0
    /\ RotLogComplete
    /\ RLen = DetentSteps - 1
    /\ \A i \in 1..RLen : rot_log[i].delta = 1
    /\ step_accumulator = DetentSteps - 1

(* C13: reset_counter changes only the counter: step_accumulator,          *)
(* last_state, last_button and button_debounce_time keep their values;     *)
(* get_counter changes none of the decoder's fields.                       *)
C13_ResetAndGetFrame ==
    [][ /\ op' = "reset_counter"
           => UNCHANGED <<step_accumulator, last_state, last_button, button_debounce_time>>
        /\ op' = "get_counter"
           => UNCHANGED <<counter, step_accumulator, last_state,
                          last_button, button_debounce_time>> ]_vars

C13_Witness ==
    /\ op = "reset_counter"
    /\ counter = 0
    /\ step_accumulator = -(DetentSteps - 1)
    /\ RLen = DetentSteps - 1
    /\ RotLogComplete
    /\ last_state # init_state

(* C14: for pin levels in {0,1}, last_state is always in [0,3], the table  *)
(* index computed by read_rotation is in [0,15], and every read_rotation   *)
(* call returns -1, 0 or +1.                                               *)
C14_Ranges ==
    /\ last_state \in 0..3
    /\ \A i \in 1..RLen :
           /\ rot_log[i].old \in 0..3
           /\ rot_log[i].new \in 0..3
           /\ TableIndex(rot_log[i].old, rot_log[i].new) \in 0..15
           /\ rot_log[i].ret \in {-1, 0, 1}
    /\ op = "read_rotation" => result \in {-1, 0, 1}

C14_Witness ==
    /\ op = "read_rotation"
    /\ result = 1
    /\ \E i \in 1..RLen : TableIndex(rot_log[i].old, rot_log[i].new) = 15
    /\ \E i \in 1..RLen : TableIndex(rot_log[i].old, rot_log[i].new) = 0

(* C16: after every read_rotation call, on the detent path, on the path    *)
(* with a non-zero delta and no detent, and on the zero-delta path,        *)
(* last_state is the packed state sampled in that call, so the next call   *)
(* measures its transition from the most recent sample.                    *)
C16_LastStateIsLatestSample ==
    /\ RLen >= 1 => last_state = RLast.new
    /\ \A i \in 2..RLen : rot_log[i].old = rot_log[i - 1].new

C16_Witness ==
    /\ op = "read_rotation"
    /\ RLen >= 3
    /\ rot_log[RLen - 2].ret # 0
    /\ rot_log[RLen - 1].delta # 0 /\ rot_log[RLen - 1].ret = 0
    /\ rot_log[RLen].delta = 0 /\ rot_log[RLen].new # rot_log[RLen].old

(* C17: press events are edge-triggered: among read_button calls that all  *)
(* sample level 1 with no level-0 sample between them, at most one returns *)
(* true, however many polls and however long the button is held.           *)
C17_OneEventPerHold ==
    \A i \in 1..BLen : \A j \in (i + 1)..BLen :
        (\A k \in i..j : btn_log[k].level = 1)
        => ~(btn_log[i].ret /\ btn_log[j].ret)

C17_Witness ==
    /\ op = "read_button"
    /\ BLen >= 3
    /\ btn_log[BLen - 2].ret
    /\ btn_log[BLen - 1].level = 1
    /\ btn_log[BLen].level = 1
    /\ btn_log[BLen].t - btn_log[BLen - 2].t > DebounceMs
    /\ btn_log[BLen - 1].t - btn_log[BLen - 2].t > 0

(* C18: in a run that never calls reset_counter, after every read_rotation *)
(* call counter = 4 * (sum of the directions returned so far) +            *)
(* step_accumulator, whatever the samples (reversals, illegal jumps).      *)
C18_CounterIsDetentsPlusRemainder ==
    counter = DetentSteps * dir_sum + step_accumulator

C18_Witness ==
    /\ op = "read_rotation"
    /\ dir_sum = 1
    /\ step_accumulator = -2
    /\ counter = 2
    /\ DoubleJump(RLast.old, RLast.new)

(* C19: detent events stay aligned to the state sampled at construction:   *)
(* as long as every sampled transition is no change or a change of one     *)
(* pin, read_rotation returns a non-zero direction only on a call that     *)
(* samples the initial state, and step_accumulator is 0 after every call   *)
(* that samples the initial state, with or without reset_counter calls.    *)
C19_DetentsAlignedToInitialState ==
    /\ \A i \in 1..RLen :
           /\ rot_log[i].ret # 0 => rot_log[i].new = init_state
           /\ rot_log[i].new = init_state => rot_log[i].acc1 = 0
    /\ last_state = init_state => step_accumulator = 0

C19_Witness ==
    /\ op = "read_rotation"
    /\ result = -1
    /\ last_state = init_state
    /\ counter = -1
    /\ nrot > DetentSteps
    /\ \E i \in 1..RLen : rot_log[i].delta = 1

----------------------------------------------------------------------------
\* the rotation fields and return value after the first n calls of rot_log,
\* replayed on a decoder constructed in init_state (rot_log complete)
RECURSIVE RotReplay(_)
RotReplay(n) ==
    IF n = 0
    THEN [last_state |-> init_state, counter |-> 0, step_accumulator |-> 0, ret |-> 0]
    ELSE RotCall(RotReplay(n - 1), rot_log[n].new)

\* the button fields and return value after the first n calls of btn_log,
\* replayed on a decoder constructed with the button at level c0
RECURSIVE BtnReplay(_, _)
BtnReplay(n, c0) ==
    IF n = 0
    THEN [last_button |-> c0, button_debounce_time |-> 0, ret |-> FALSE]
    ELSE BtnCall(BtnReplay(n - 1, c0), btn_log[n].level, ticks_ms(btn_log[n].t))

(* C20: rotation state and button state are disjoint: read_rotation never  *)
(* changes last_button or button_debounce_time, read_button never changes  *)
(* last_state, step_accumulator or counter; so what a read_rotation call   *)
(* returns and leaves behind is what the rotation calls alone give,        *)
(* whatever read_button calls came before it, and vice versa.              *)
C20_RotationAndButtonDisjoint ==
    /\ [][ /\ nrot' # nrot => UNCHANGED <<last_button, button_debounce_time>>
           /\ Len(btn_log') # Len(btn_log)
              => UNCHANGED <<last_state, step_accumulator, counter>> ]_vars
    /\ [] ( /\ RotLogComplete
               => /\ <<last_state, counter, step_accumulator>>
                     = <<RotReplay(RLen).last_state, RotReplay(RLen).counter,
                         RotReplay(RLen).step_accumulator>>
                  /\ \A n \in 1..RLen : rot_log[n].ret = RotReplay(n).ret
            /\ BLen >= 1
               => /\ <<last_button, button_debounce_time>>
                     = <<BtnReplay(BLen, btn_log[1].last0).last_button,
                         BtnReplay(BLen, btn_log[1].last0).button_debounce_time>>
                  /\ \A n \in 1..BLen :
                         btn_log[n].ret = BtnReplay(n, btn_log[1].last0).ret )

C20_Witness ==
    /\ nrot = 2
    /\ BLen = 2
    /\ op = "read_rotation"
    /\ rot_log[1].delta # 0
    /\ rot_log[2].delta # 0
    /\ btn_log[2].ret
    /\ last_button = 1
    /\ button_debounce_time = DebounceMs + 1

----------------------------------------------------------------------------
\* the handler ran after the polling invocation's first statement and before
\* its return statement
Preempted ==
    /\ ctx.irq # "none"
    /\ ctx.irq_at \notin {43, 73, 61, 66, 84, 87}
\* each of the two invocations changed a field
BothWrote ==
    /\ counter # ctx.start.counter
    /\ button_debounce_time # ctx.start.button_debounce_time

====
